---- MODULE Spec2Model ----
(***************************************************************************)
(* Model of the calculator core of Hanyyoussef4/midterm_cl_project:        *)
(*   app/operations.py   Operation, the ten lambdas, OperationFactory      *)
(*   app/calculation.py  CalculationMemento                                *)
(*   app/history.py      History (two deques: past / future)               *)
(*   app/calculator.py   Calculator facade (evaluate, undo, redo, ...)     *)
(* One action per Calculator method; every action is the whole call.       *)
(***************************************************************************)
EXTENDS Integers, Sequences, FiniteSets, TLC

VARIABLES
    max_history,   \* argument given to Calculator.__init__
    max_size,      \* maxlen of both deques of the History
    past,          \* History._past,   oldest first
    future,        \* History._future, most recently undone last
    observers,     \* Calculator._observers, in registration order
    notified,      \* notify() invocations made by the most recent call, in order
    outcome,       \* what the most recent call returned or raised
    pushed,        \* records pushed since the history was last empty and fresh
    linear,        \* TRUE while only pushes happened since then (no undo/redo)
    files,         \* the file system: what each path holds
    request,       \* arguments of the most recent direct factory call / REPL line
    printed,       \* what the most recent REPL line printed, as lower-case words
    threads,       \* position and locals of threads inside History methods
    other,         \* a second Calculator instance, the one calls are not made on
    log_handlers   \* handlers of logging.getLogger("CalculatorLogger"): their files

vars == <<max_history, max_size, past, future, observers, notified, outcome,
          pushed, linear, files, request, printed, threads, other, log_handlers>>

----------------------------------------------------------------------------
(* Bounds of the model                                                     *)

MaxEvals == 3          \* evaluate succeeds only while len(past) and the push log are shorter
MaxObservers == 2      \* register_observer only while the observer list is shorter
MaxHistoryArg == 2     \* max_history given to the constructor: None or 1..MaxHistoryArg
MaxOperand == 3        \* operands of a direct resolver call: -MaxOperand..MaxOperand

(* Program constants                                                       *)

DEFAULT_MAX_HISTORY == 100

None == -1             \* Python's None where an int is expected

----------------------------------------------------------------------------
(* Numbers.  A result is the real (num/den)^(1/rt), kept in lowest terms   *)
(* with den > 0; rt = 1 for everything but an irrational or complex root.  *)

Abs(x) == IF x < 0 THEN -x ELSE x

RECURSIVE Gcd(_, _)
Gcd(a, b) == IF b = 0 THEN Abs(a) ELSE Gcd(b, Abs(a) % Abs(b))

RECURSIVE Pow(_, _)
Pow(a, n) == IF n = 0 THEN 1 ELSE a * Pow(a, n - 1)

\* A quotient rounded toward zero instead of down.
FloorDiv_TowardZero(a, b) ==
    IF b = 0 THEN 0
    ELSE IF (a < 0) = (b < 0) THEN Abs(a) \div Abs(b)
    ELSE -(Abs(a) \div Abs(b))

\* Python's a // b and a % b on integers: floor division, sign of the divisor.
FloorDiv(a, b) == IF b > 0 THEN a \div b ELSE (-a) \div (-b)

PyMod(a, b) == a - b * FloorDiv(a, b)

Frac(n, d) ==
    LET g == Gcd(n, d)
        s == IF d < 0 THEN -1 ELSE 1
    IN  [num |-> s * (n \div g), den |-> s * (d \div g), rt |-> 1]

Num(n) == [num |-> n, den |-> 1, rt |-> 1]

NoValue == [num |-> 0, den |-> 0, rt |-> 0]

----------------------------------------------------------------------------
(* What a call gives back: a value, or an exception with its message.      *)

Returns(v) == [raised |-> "", msg |-> "", value |-> v]

Raises(cls, m) == [raised |-> cls, msg |-> m, value |-> NoValue]

_err(msg) == Raises("ValueError", msg)

----------------------------------------------------------------------------
(* app/operations.py: the ten lambdas                                      *)

_add(a, b) == Returns(Num(a + b))

_sub(a, b) == Returns(Num(a - b))

_mul(a, b) == Returns(Num(a * b))

_div(a, b) == IF b # 0 THEN Returns(Frac(a, b)) ELSE _err("division by zero")

\* a ** b on integers: an int for b >= 0, a float 1/a^-b for b < 0, and
\* ZeroDivisionError for 0 raised to a negative power.
_pow(a, b) ==
    IF b >= 0 THEN Returns(Num(Pow(a, b)))
    ELSE IF a = 0 THEN Raises("ZeroDivisionError", "0.0 cannot be raised to a negative power")
    ELSE Returns(Frac(1, Pow(a, -b)))

\* a ** (1 / n): exact where the float result is exact on small operands
\* (a in {0, 1}, n = +-1, perfect powers), otherwise the symbolic root,
\* which is a complex number when a < 0 and |n| >= 2.
_root(a, n) ==
    IF n = 0 THEN _err("zero root")
    ELSE IF a = 0 THEN
        IF n > 0 THEN Returns(Num(0))
        ELSE Raises("ZeroDivisionError", "0.0 cannot be raised to a negative power")
    ELSE IF n = 1 THEN Returns(Num(a))
    ELSE IF n = -1 THEN Returns(Frac(1, a))
    ELSE IF a > 0 /\ \E r \in 1..a : Pow(r, Abs(n)) = a THEN
        LET r == CHOOSE r \in 1..a : Pow(r, Abs(n)) = a
        IN  Returns(IF n > 0 THEN Num(r) ELSE Frac(1, r))
    ELSE Returns([num |-> a, den |-> 1, rt |-> n])

\* A modulus without the b != 0 guard: Python's % raises ZeroDivisionError.
_mod_Unguarded(a, b) ==
    IF b # 0 THEN Returns(Num(PyMod(a, b)))
    ELSE Raises("ZeroDivisionError", "integer modulo by zero")

_mod(a, b) == IF b # 0 THEN Returns(Num(PyMod(a, b))) ELSE _err("modulo by zero")

_intdiv(a, b) == IF b # 0 THEN Returns(Num(FloorDiv(a, b))) ELSE _err("int divide by zero")

_percent(a, b) == IF b # 0 THEN Returns(Frac(a * 100, b)) ELSE _err("percent div by zero")

_absdiff(a, b) == Returns(Num(Abs(a - b)))

\* OperationFactory._registry: the keys are the class names lower-cased.
_registry == {"add", "subtract", "multiply", "divide", "power", "root",
              "modulus", "intdivide", "percent", "absdiff"}

\* Operation.func of the class registered under `name`.
func(name, a, b) ==
    CASE name = "add"       -> _add(a, b)
      [] name = "subtract"  -> _sub(a, b)
      [] name = "multiply"  -> _mul(a, b)
      [] name = "divide"    -> _div(a, b)
      [] name = "power"     -> _pow(a, b)
      [] name = "root"      -> _root(a, b)
      [] name = "modulus"   -> _mod(a, b)
      [] name = "intdivide" -> _intdiv(a, b)
      [] name = "percent"   -> _percent(a, b)
      [] name = "absdiff"   -> _absdiff(a, b)

\* str.lower() on the operation names the model feeds in.
lower(s) ==
    CASE s = "Divide" -> "divide"
      [] s = "ADD"    -> "add"
      [] OTHER        -> s

\* Operation.__init__: the arity check, then the operands are stored.
num_args == 2

\* An Operation.__init__ that reports a wrong operand count with the
\* factory's unknown-name message.
Operation_SameMessage(name, operands) ==
    IF Len(operands) # num_args
    THEN [raised |-> "ValueError", msg |-> "Unknown operation",
          name |-> name, operands |-> <<>>]
    ELSE [raised |-> "", msg |-> "", name |-> name, operands |-> operands]

Operation(name, operands) ==
    IF Len(operands) # num_args
    THEN [raised |-> "ValueError", msg |-> "expects 2 arguments",
          name |-> name, operands |-> <<>>]
    ELSE [raised |-> "", msg |-> "", name |-> name, operands |-> operands]

\* OperationFactory.create: registry lookup on the lower-cased name.
create(op_name, operands) ==
    IF lower(op_name) \notin _registry
    THEN [raised |-> "ValueError", msg |-> "Unknown operation",
          name |-> "", operands |-> <<>>]
    ELSE Operation(lower(op_name), operands)

\* Operation.evaluate: self.func(*self.operands)
op_evaluate(op) == func(op.name, op.operands[1], op.operands[2])

\* OperationFactory.create(op_name, *operands).evaluate(): the resolver.
resolve(op_name, operands) ==
    LET op == create(op_name, operands)
    IN  IF op.raised # "" THEN Raises(op.raised, op.msg) ELSE op_evaluate(op)

----------------------------------------------------------------------------
(* app/calculation.py: CalculationMemento                                  *)

\* timestamp values datetime.utcnow().isoformat(timespec="seconds") may give
Timestamps == {"2025-01-01T00:00:00", "2025-01-01T00:00:01"}

NoMemento ==
    [operation_name |-> "", operands |-> <<>>, result |-> NoValue, timestamp |-> ""]

\* CalculationMemento.from_operation: evaluates the operation again for the
\* result field; `t` is the default_factory's reading of the clock.
\* A from_operation that stores the operands in reverse order.
from_operation_Swapped(op, t) ==
    [operation_name |-> op.name, operands |-> <<op.operands[2], op.operands[1]>>,
     result |-> op_evaluate(op).value, timestamp |-> t]

from_operation(op, t) ==
    [operation_name |-> op.name, operands |-> op.operands,
     result |-> op_evaluate(op).value, timestamp |-> t]

----------------------------------------------------------------------------
(* app/history.py: History over two deques with the same maxlen            *)

\* deque.append with the eviction of a full deque left out.
deque_append_NoEvict(d, item, maxlen) == Append(d, item)

\* deque.append on a deque built with maxlen: a full deque drops its
\* leftmost item; maxlen 0 keeps nothing; maxlen None is unbounded.
deque_append(d, item, maxlen) ==
    IF maxlen = None THEN Append(d, item)
    ELSE IF maxlen = 0 THEN d
    ELSE IF Len(d) >= maxlen THEN Append(Tail(d), item)
    ELSE Append(d, item)

\* deque.pop: the rightmost item is removed.
deque_pop(d) == SubSeq(d, 1, Len(d) - 1)

Last(d) == d[Len(d)]

\* push that forgets self._future.clear().
push_KeepFuture(h, item, maxlen) ==
    [past |-> deque_append(h.past, item, maxlen), future |-> h.future]

\* History.push
push(h, item, maxlen) ==
    [past |-> deque_append(h.past, item, maxlen), future |-> <<>>]

\* undo that pops the item without appending it to self._future.
undo_DropItem(h, maxlen) ==
    IF h.past = <<>>
    THEN [raised |-> "IndexError", msg |-> "nothing to undo", item |-> NoMemento,
          past |-> h.past, future |-> h.future]
    ELSE [raised |-> "", msg |-> "", item |-> Last(h.past),
          past |-> deque_pop(h.past), future |-> h.future]

\* undo that takes the oldest item of self._past (popleft) instead of the
\* newest.
undo_Fifo(h, maxlen) ==
    IF h.past = <<>>
    THEN [raised |-> "IndexError", msg |-> "nothing to undo", item |-> NoMemento,
          past |-> h.past, future |-> h.future]
    ELSE [raised |-> "", msg |-> "", item |-> h.past[1],
          past |-> Tail(h.past),
          future |-> deque_append(h.future, h.past[1], maxlen)]

\* History.undo
undo(h, maxlen) ==
    IF h.past = <<>>
    THEN [raised |-> "IndexError", msg |-> "nothing to undo", item |-> NoMemento,
          past |-> h.past, future |-> h.future]
    ELSE [raised |-> "", msg |-> "", item |-> Last(h.past),
          past |-> deque_pop(h.past),
          future |-> deque_append(h.future, Last(h.past), maxlen)]

\* redo whose guard also refuses when self._past is empty.
redo_GuardOnPast(h, maxlen) ==
    IF h.past = <<>> \/ h.future = <<>>
    THEN [raised |-> "IndexError", msg |-> "nothing to redo", item |-> NoMemento,
          past |-> h.past, future |-> h.future]
    ELSE [raised |-> "", msg |-> "", item |-> Last(h.future),
          past |-> deque_append(h.past, Last(h.future), maxlen),
          future |-> deque_pop(h.future)]

\* redo that reads self._future[-1] without popping it.
redo_Peek(h, maxlen) ==
    IF h.future = <<>>
    THEN [raised |-> "IndexError", msg |-> "nothing to redo", item |-> NoMemento,
          past |-> h.past, future |-> h.future]
    ELSE [raised |-> "", msg |-> "", item |-> Last(h.future),
          past |-> deque_append(h.past, Last(h.future), maxlen),
          future |-> h.future]

\* History.redo
redo(h, maxlen) ==
    IF h.future = <<>>
    THEN [raised |-> "IndexError", msg |-> "nothing to redo", item |-> NoMemento,
          past |-> h.past, future |-> h.future]
    ELSE [raised |-> "", msg |-> "", item |-> Last(h.future),
          past |-> deque_append(h.past, Last(h.future), maxlen),
          future |-> deque_pop(h.future)]

\* clear that forgets self._future.clear().
clear_OnlyPast(h) == [past |-> <<>>, future |-> h.future]

\* History.clear
clear(h) == [past |-> <<>>, future |-> <<>>]

\* History.__len__
size(h) == Len(h.past)

\* The History of the calculator, as one value.
history == [past |-> past, future |-> future]

----------------------------------------------------------------------------
(* Observers.  The handlers are objects with a notify method: "spy"        *)
(* returns normally (tests' SpyObserver), "bad" raises RuntimeError        *)
(* (tests' BadObserver).                                                   *)

ObserverIds == {"spy", "bad"}

\* Observer.notify of handler o: the exception class it raises, "" if none.
notify(o, memento) == IF o = "bad" THEN "RuntimeError" ELSE ""

\* issubclass(cls, Exception): what `except Exception` catches.
IsException(cls) == cls \in {"RuntimeError", "ValueError", "IndexError", "ZeroDivisionError"}

\* Calculator._notify_observers: the for loop over self._observers from
\* position i on; each call is recorded, an Exception is swallowed and the
\* loop goes on, anything else leaves the loop and propagates.
RECURSIVE notify_from(_, _, _)
notify_from(obs, i, memento) ==
    IF i > Len(obs) THEN [calls |-> <<>>, raised |-> ""]
    ELSE LET r    == notify(obs[i], memento)
             call == [observer |-> obs[i], memento |-> memento, raised |-> r]
         IN  IF r = "" \/ IsException(r)
             THEN LET rest == notify_from(obs, i + 1, memento)
                  IN  [calls |-> <<call>> \o rest.calls, raised |-> rest.raised]
             ELSE [calls |-> <<call>>, raised |-> r]

\* The loop with the try/except around it instead of inside it: the first
\* failing handler ends the loop, the exception is still swallowed.
RECURSIVE notify_until_error(_, _, _)
notify_until_error(obs, i, memento) ==
    IF i > Len(obs) THEN <<>>
    ELSE LET r    == notify(obs[i], memento)
             call == [observer |-> obs[i], memento |-> memento, raised |-> r]
         IN  IF r = "" THEN <<call>> \o notify_until_error(obs, i + 1, memento)
             ELSE <<call>>

_notify_observers_StopAtError(obs, memento) ==
    [calls |-> notify_until_error(obs, 1, memento), raised |-> ""]

\* The loop over reversed(self._observers).
_notify_observers_Reversed(obs, memento) ==
    notify_from([i \in 1..Len(obs) |-> obs[Len(obs) + 1 - i]], 1, memento)

_notify_observers(obs, memento) == notify_from(obs, 1, memento)

----------------------------------------------------------------------------
(* Files.  A CSV file is its data rows (the header line is always the five *)
(* field names); a number is written as text and read back with float().  *)
(* `files` maps each existing path to its content; `source` is not in the  *)
(* file: it remembers the history() the writer wrote the rows from.        *)

\* The file system before any file was written: no path exists.
NoFiles == <<>>

\* open(path, "w") and the writes that follow: the file is created or replaced.
write_file(fs, path, content) ==
    [q \in (DOMAIN fs) \cup {path} |-> IF q = path THEN content ELSE fs[q]]

\* CalculationMemento.as_dict: the flat field set of a record.
as_dict(m) ==
    [timestamp |-> m.timestamp, operation |-> m.operation_name,
     op1 |-> Num(m.operands[1]), op2 |-> Num(m.operands[2]), result |-> m.result]

\* A result is a complex number when it is a root of a negative number.
IsComplex(v) == v.num < 0 /\ (v.rt >= 2 \/ v.rt <= -2)

\* str(x) of a number, as the CSV writers put it in a cell: the shortest
\* digits that read back as the same float, or "(re+imj)" for a complex.
str_num(v) == [complex |-> IsComplex(v), digits |-> v]

\* float(text): ValueError on the text of a complex number.
float_of(text) ==
    IF text.complex THEN Raises("ValueError", "could not convert string to float")
    ELSE Returns(text.digits)

\* One data row as DictWriter.writerows / DataFrame.to_csv write it.
csv_row(m) ==
    LET d == as_dict(m)
    IN  [timestamp |-> d.timestamp, operation |-> d.operation,
         op1 |-> str_num(d.op1), op2 |-> str_num(d.op2), result |-> str_num(d.result)]

csv_rows(hist) == [i \in 1..Len(hist) |-> csv_row(hist[i])]

\* AutoSaveObserver: the handler "autosave" rewrites its CSV from the
\* history_provider (calculator.history) as it is when notify runs.
AutoSavePath == "history/history.csv"

autosave_notify(hist, fs) ==
    write_file(fs, AutoSavePath, [rows |-> csv_rows(hist), source |-> hist])

\* What the notify calls of one _notify_observers run do to the files, with
\* `hist` the calculator's history() while the handlers run.
observer_effects(calls, hist, fs) ==
    IF \E i \in 1..Len(calls) : calls[i].observer = "autosave"
    THEN autosave_notify(hist, fs)
    ELSE fs

----------------------------------------------------------------------------
(* app/calculator.py: the Calculator facade.  Each method is an operator   *)
(* from the current state to the effect of the whole call.                 *)

\* `x or y` of Python on an int-or-None x.
or_default(x, y) == IF x = None \/ x = 0 THEN y ELSE x

\* The effect of a call that raised before touching anything.
Failed(cls, m) ==
    [raised |-> cls, msg |-> m, result |-> NoValue, memento |-> NoMemento,
     past |-> past, future |-> future, calls |-> <<>>, files |-> files]

\* evaluate that pushes the record before the result is computed.
evaluate_PushFirst(op_name, operands, t) ==
    LET op_obj == create(op_name, operands)
    IN  IF op_obj.raised # "" THEN Failed(op_obj.raised, op_obj.msg)
        ELSE LET result  == op_evaluate(op_obj)
                 memento == [operation_name |-> op_obj.name, operands |-> op_obj.operands,
                             result |-> result.value, timestamp |-> t]
                 h == push(history, memento, max_size)
             IN  IF result.raised # ""
                 THEN [Failed(result.raised, result.msg) EXCEPT
                          !.past = h.past, !.future = h.future]
                 ELSE LET n == _notify_observers(observers, memento)
                      IN  [raised |-> n.raised, msg |-> "",
                           result |-> IF n.raised = "" THEN result.value ELSE NoValue,
                           memento |-> memento,
                           past |-> h.past, future |-> h.future, calls |-> n.calls,
                           files |-> observer_effects(n.calls, h.past, files)]

\* evaluate that notifies in a `finally`, so also when the operation raised.
evaluate_NotifyAlways(op_name, operands, t) ==
    LET op_obj == create(op_name, operands)
    IN  IF op_obj.raised # "" THEN Failed(op_obj.raised, op_obj.msg)
        ELSE LET result == op_evaluate(op_obj)
             IN  IF result.raised # ""
                 THEN [Failed(result.raised, result.msg) EXCEPT
                          !.calls = _notify_observers(observers, NoMemento).calls]
                 ELSE LET memento == from_operation(op_obj, t)
                          h == push(history, memento, max_size)
                          n == _notify_observers(observers, memento)
                      IN  [raised |-> n.raised, msg |-> "",
                           result |-> IF n.raised = "" THEN result.value ELSE NoValue,
                           memento |-> memento,
                           past |-> h.past, future |-> h.future, calls |-> n.calls,
                           files |-> observer_effects(n.calls, h.past, files)]

\* Calculator.evaluate
\* An evaluate that notifies the observers before it pushes the record.
evaluate_NotifyBeforePush(op_name, operands, t) ==
    LET op_obj == create(op_name, operands)
    IN  IF op_obj.raised # "" THEN Failed(op_obj.raised, op_obj.msg)
        ELSE LET result == op_evaluate(op_obj)
             IN  IF result.raised # "" THEN Failed(result.raised, result.msg)
                 ELSE LET memento == from_operation(op_obj, t)
                          n == _notify_observers(observers, memento)
                          h == push(history, memento, max_size)
                      IN  [raised |-> n.raised, msg |-> "",
                           result |-> IF n.raised = "" THEN result.value ELSE NoValue,
                           memento |-> memento,
                           past |-> h.past, future |-> h.future, calls |-> n.calls,
                           files |-> observer_effects(n.calls, history.past, files)]

evaluate(op_name, operands, t) ==
    LET op_obj == create(op_name, operands)
    IN  IF op_obj.raised # "" THEN Failed(op_obj.raised, op_obj.msg)
        ELSE LET result == op_evaluate(op_obj)
             IN  IF result.raised # "" THEN Failed(result.raised, result.msg)
                 ELSE LET memento == from_operation(op_obj, t)
                          h == push(history, memento, max_size)
                          n == _notify_observers(observers, memento)
                      IN  [raised |-> n.raised, msg |-> "",
                           result |-> IF n.raised = "" THEN result.value ELSE NoValue,
                           memento |-> memento,
                           past |-> h.past, future |-> h.future, calls |-> n.calls,
                           files |-> observer_effects(n.calls, h.past, files)]

\* undo that notifies the observers of the record it took back.
calc_undo_Notifies ==
    LET u == undo(history, max_size)
    IN  [raised |-> u.raised, msg |-> u.msg, result |-> NoValue, memento |-> u.item,
         past |-> u.past, future |-> u.future,
         calls |-> IF u.raised = "" THEN _notify_observers(observers, u.item).calls
                   ELSE <<>>]

\* Calculator.undo
calc_undo ==
    LET u == undo(history, max_size)
    IN  [raised |-> u.raised, msg |-> u.msg, result |-> NoValue, memento |-> u.item,
         past |-> u.past, future |-> u.future, calls |-> <<>>]

\* Calculator.redo
calc_redo ==
    LET r == redo(history, max_size)
    IN  [raised |-> r.raised, msg |-> r.msg, result |-> NoValue, memento |-> r.item,
         past |-> r.past, future |-> r.future, calls |-> <<>>]

\* Calculator.clear_history
clear_history ==
    LET h == clear(history)
    IN  [raised |-> "", msg |-> "", result |-> NoValue, memento |-> NoMemento,
         past |-> h.past, future |-> h.future, calls |-> <<>>]

\* Calculator.history: the past snapshot, oldest first.
calc_history == past

\* list.remove: the first matching element goes, ValueError if there is none.
\* A remove that takes out the last matching element instead of the first.
list_remove_Last(l, x) ==
    IF \A i \in 1..Len(l) : l[i] # x
    THEN [raised |-> "ValueError", list |-> l]
    ELSE LET i == CHOOSE i \in 1..Len(l) : l[i] = x /\ \A j \in (i + 1)..Len(l) : l[j] # x
         IN  [raised |-> "", list |-> SubSeq(l, 1, i - 1) \o SubSeq(l, i + 1, Len(l))]

list_remove(l, x) ==
    IF \A i \in 1..Len(l) : l[i] # x
    THEN [raised |-> "ValueError", list |-> l]
    ELSE LET i == CHOOSE i \in 1..Len(l) : l[i] = x /\ \A j \in 1..(i - 1) : l[j] # x
         IN  [raised |-> "", list |-> SubSeq(l, 1, i - 1) \o SubSeq(l, i + 1, Len(l))]

\* Calculator.register_observer
register_observer(o) == Append(observers, o)

\* An unregister_observer that drops the newest registration when the
\* handler is not registered.
unregister_observer_DropsNewest(o) ==
    IF list_remove(observers, o).raised # ""
    THEN SubSeq(observers, 1, Len(observers) - 1)
    ELSE list_remove(observers, o).list

\* Calculator.unregister_observer: the ValueError of remove is swallowed.
unregister_observer(o) == list_remove(observers, o).list

\* What a call leaves in `outcome`: the exception class if it raised, the
\* number evaluate returned, the record undo / redo returned or evaluate made.
Outcome(name, e) ==
    [op |-> name, raised |-> e.raised, result |-> e.result, memento |-> e.memento]

Plain(name) ==
    [op |-> name, raised |-> "", result |-> NoValue, memento |-> NoMemento]

----------------------------------------------------------------------------
(* Inputs                                                                  *)

\* evaluate requests the model issues: two that succeed in different letter
\* case, the zero second operand for every guarded operation, 0 ** -1, an
\* unknown name, and one / three operands.
Requests ==
    ({"ADD", "Divide"} \X {<<7, 2>>})
    \cup ({"Divide", "divide", "root", "modulus", "intdivide", "percent"} \X {<<7, 0>>})
    \cup {<<"power", <<0, -1>>>>, <<"sqrt", <<7, 2>>>>, <<"sqrt", <<7>>>>}
    \cup ({"add"} \X {<<7>>, <<7, 2, 1>>})

MaxHistoryArgs == {None} \cup (1..MaxHistoryArg)

\* Only one Calculator instance was constructed.
NoOther == <<>>

\* No direct factory call or REPL line was made yet.
NoRequest == [op_name |-> "", operands |-> <<>>]

\* The calls are made one after the other by one caller: there is no
\* thread whose position inside a History method would have to be kept.
NoThreads == <<>>

----------------------------------------------------------------------------
(* The state machine                                                       *)

\* Calculator.__init__
Init ==
    /\ max_history \in MaxHistoryArgs
    /\ max_size = or_default(max_history, DEFAULT_MAX_HISTORY)
    /\ past = <<>>
    /\ future = <<>>
    /\ observers = <<>>
    /\ notified = <<>>
    /\ outcome = Plain("__init__")
    /\ pushed = <<>>
    /\ linear = TRUE
    /\ files = NoFiles
    /\ request = NoRequest
    /\ printed = <<>>
    /\ threads = NoThreads
    /\ other = NoOther
    /\ log_handlers = <<>>

Evaluate(op_name, operands, t) ==
    LET e == evaluate(op_name, operands, t)
    IN  /\ e.memento # NoMemento => (Len(past) < MaxEvals /\ Len(pushed) < MaxEvals)
        /\ past' = e.past
        /\ future' = e.future
        /\ notified' = e.calls
        /\ outcome' = Outcome("evaluate", e)
        /\ pushed' = IF e.memento # NoMemento /\ linear
                     THEN Append(pushed, e.memento) ELSE pushed
        /\ files' = e.files
        /\ UNCHANGED <<max_history, max_size, observers, linear, request, printed, threads, other, log_handlers>>

Undo ==
    LET e == calc_undo
    IN  /\ past' = e.past
        /\ future' = e.future
        /\ notified' = e.calls
        /\ outcome' = Outcome("undo", e)
        /\ linear' = IF e.raised = "" THEN FALSE ELSE linear
        /\ pushed' = IF e.raised = "" THEN <<>> ELSE pushed
        /\ UNCHANGED <<max_history, max_size, observers, files, request, printed, threads, other, log_handlers>>

Redo ==
    LET e == calc_redo
    IN  /\ past' = e.past
        /\ future' = e.future
        /\ notified' = e.calls
        /\ outcome' = Outcome("redo", e)
        /\ linear' = IF e.raised = "" THEN FALSE ELSE linear
        /\ pushed' = IF e.raised = "" THEN <<>> ELSE pushed
        /\ UNCHANGED <<max_history, max_size, observers, files, request, printed, threads, other, log_handlers>>

ClearHistory ==
    LET e == clear_history
    IN  /\ past' = e.past
        /\ future' = e.future
        /\ notified' = e.calls
        /\ outcome' = Outcome("clear_history", e)
        /\ linear' = TRUE
        /\ pushed' = <<>>
        /\ UNCHANGED <<max_history, max_size, observers, files, request, printed, threads, other, log_handlers>>

RegisterObserver(o) ==
    /\ Len(observers) < MaxObservers
    /\ observers' = register_observer(o)
    /\ notified' = <<>>
    /\ outcome' = Plain("register_observer")
    /\ UNCHANGED <<max_history, max_size, past, future, pushed, linear,
                   files, request, printed, threads, other, log_handlers>>

UnregisterObserver(o) ==
    /\ observers' = unregister_observer(o)
    /\ notified' = <<>>
    /\ outcome' = Plain("unregister_observer")
    /\ UNCHANGED <<max_history, max_size, past, future, pushed, linear,
                   files, request, printed, threads, other, log_handlers>>

Next ==
    \/ \E r \in Requests, t \in Timestamps : Evaluate(r[1], r[2], t)
    \/ Undo
    \/ Redo
    \/ ClearHistory
    \/ \E o \in ObserverIds : RegisterObserver(o)
    \/ \E o \in ObserverIds : UnregisterObserver(o)

Spec == Init /\ [][Next]_vars

----------------------------------------------------------------------------
(* The operation resolver called on its own, as the operation tests do:    *)
(* OperationFactory.create(op_name, *operands).evaluate().  `request` is   *)
(* the call's arguments and `outcome` what it returned or raised.          *)

Operands == (-MaxOperand)..MaxOperand

OpNames == _registry \cup {"ADD", "Divide", "sqrt"}

OperandTuples ==
    {<<a>> : a \in Operands}
    \cup (Operands \X Operands)
    \cup ({0, MaxOperand} \X {0, MaxOperand} \X {0, MaxOperand})

Resolve(op_name, operands) ==
    LET r == resolve(op_name, operands)
    IN  /\ request' = [op_name |-> op_name, operands |-> operands]
        /\ outcome' = [op |-> "resolve", raised |-> r.raised, msg |-> r.msg,
                       result |-> r.value, memento |-> NoMemento]
        /\ UNCHANGED <<max_history, max_size, past, future, observers, notified,
                       pushed, linear, files, printed, threads, other, log_handlers>>

OpNext == \E op_name \in OpNames : \E operands \in OperandTuples :
              Resolve(op_name, operands)

OpSpec == Init /\ [][OpNext]_vars

----------------------------------------------------------------------------
(* The calculator with an AutoSaveObserver among its handlers: the same    *)
(* calls as Spec, the handlers being "autosave" and the raising "bad".     *)

AutoSaveIds == {"bad", "autosave"}

AutoSaveRequests ==
    {<<"ADD", <<7, 2>>>>, <<"Divide", <<7, 2>>>>, <<"Divide", <<7, 0>>>>}

AutoSaveNext ==
    \/ \E r \in AutoSaveRequests : Evaluate(r[1], r[2], "2025-01-01T00:00:00")
    \/ Undo
    \/ Redo
    \/ ClearHistory
    \/ \E o \in AutoSaveIds : RegisterObserver(o)
    \/ \E o \in AutoSaveIds : UnregisterObserver(o)

AutoSaveSpec == Init /\ [][AutoSaveNext]_vars

----------------------------------------------------------------------------
(* app/calculator_repl.py: CalculatorCLI.  One action per kind of input    *)
(* line, each the whole _handle_line call; `request` is the line (command  *)
(* word and arguments, lower-cased and split), `printed` what the call     *)
(* printed as lower-case words, outcome.raised what escaped the handler.   *)
(* A new session is a new CalculatorCLI on the same file system.           *)

\* The words of an exception's message, lower-cased.
words(msg) ==
    CASE msg = "division by zero"    -> <<"division", "by", "zero">>
      [] msg = "zero root"           -> <<"zero", "root">>
      [] msg = "modulo by zero"      -> <<"modulo", "by", "zero">>
      [] msg = "int divide by zero"  -> <<"int", "divide", "by", "zero">>
      [] msg = "percent div by zero" -> <<"percent", "div", "by", "zero">>
      [] msg = "Unknown operation"   -> <<"unknown", "operation">>
      [] msg = "expects 2 arguments" -> <<"expects", "2", "arguments">>
      [] OTHER                       -> <<msg>>

\* The handlers CalculatorCLI.__init__ registers: LoggingObserver, then
\* AutoSaveObserver on history/history.csv.
cli_observers == <<"logging", "autosave">>

\* What a _handle_line call leaves behind.
Handled(raised, out, h, calls, fs, result, memento) ==
    [raised |-> raised, printed |-> out, past |-> h.past, future |-> h.future,
     calls |-> calls, files |-> fs, result |-> result, memento |-> memento]

\* _handle_line on a calculation line: float() the arguments, evaluate,
\* print "= result", or print "Error: ..." for any Exception.
handle_calculation(cmd, args, t) ==
    IF Len(args) # 2
    THEN Handled("", <<"error:", "need", "exactly", "two", "numeric", "operands">>,
                 history, <<>>, files, NoValue, NoMemento)
    ELSE LET e == evaluate(cmd, args, t)
         IN  IF e.raised = ""
             THEN Handled("", <<"=", "result">>, [past |-> e.past, future |-> e.future],
                          e.calls, e.files, e.result, e.memento)
             ELSE Handled(IF IsException(e.raised) THEN "" ELSE e.raised,
                          <<"error:">> \o words(e.msg),
                          history, <<>>, files, NoValue, NoMemento)

\* _cmd_undo: Calculator.undo, "Undid: ..." or, on IndexError, "Nothing to
\* undo."
_cmd_undo(args) ==
    LET u == calc_undo
    IN  IF u.raised = "IndexError"
        THEN Handled("", <<"nothing", "to", "undo.">>, history, <<>>, files, NoValue, NoMemento)
        ELSE Handled(u.raised, <<"undid:">>, [past |-> u.past, future |-> u.future],
                     u.calls, files, NoValue, u.memento)

\* _cmd_save: the file is opened for writing (created or truncated) before
\* history()[0] is read for the field names, which raises IndexError on an
\* empty history.
_cmd_save(args) ==
    IF args = <<>>
    THEN Handled("", <<"usage:", "save", "<file>">>, history, <<>>, files, NoValue, NoMemento)
    ELSE IF calc_history = <<>>
    THEN Handled("IndexError", <<>>, history, <<>>,
                 write_file(files, args[1], [rows |-> <<>>, source |-> <<>>]),
                 NoValue, NoMemento)
    ELSE Handled("", <<"history", "saved", "to", args[1]>>, history, <<>>,
                 write_file(files, args[1], [rows |-> csv_rows(calc_history),
                                             source |-> calc_history]),
                 NoValue, NoMemento)

\* The CalculationMemento built from one CSV row, or the ValueError of float().
memento_of_row(row) ==
    LET op1 == float_of(row.op1)
        op2 == float_of(row.op2)
        res == float_of(row.result)
    IN  IF op1.raised # "" THEN [raised |-> op1.raised, memento |-> NoMemento]
        ELSE IF op2.raised # "" THEN [raised |-> op2.raised, memento |-> NoMemento]
        ELSE IF res.raised # "" THEN [raised |-> res.raised, memento |-> NoMemento]
        ELSE [raised |-> "",
              memento |-> [operation_name |-> lower(row.operation),
                           operands |-> <<op1.value.num, op2.value.num>>,
                           result |-> res.value, timestamp |-> row.timestamp]]

\* The for loop of _cmd_load from row i on: push each row's memento, stop
\* at the first row that raises.
RECURSIVE load_rows(_, _, _)
load_rows(rows, i, h) ==
    IF i > Len(rows) THEN [raised |-> "", h |-> h]
    ELSE LET m == memento_of_row(rows[i])
         IN  IF m.raised # "" THEN [raised |-> m.raised, h |-> h]
             ELSE load_rows(rows, i + 1, push(h, m.memento, max_size))

\* A _cmd_load without the clear_history() call.
_cmd_load_Appends(args) ==
    IF args = <<>>
    THEN Handled("", <<"usage:", "load", "<file>">>, history, <<>>, files, NoValue, NoMemento)
    ELSE IF args[1] \notin DOMAIN files
    THEN Handled("", <<"file", "not", "found.">>, history, <<>>, files, NoValue, NoMemento)
    ELSE LET l == load_rows(files[args[1]].rows, 1, history)
         IN  IF l.raised # ""
             THEN Handled(l.raised, <<>>, l.h, <<>>, files, NoValue, NoMemento)
             ELSE Handled("", <<"history", "loaded", "from", args[1]>>, l.h, <<>>, files,
                          NoValue, NoMemento)

\* _cmd_load: clear_history(), then the rows; an exception of a row escapes.
_cmd_load(args) ==
    IF args = <<>>
    THEN Handled("", <<"usage:", "load", "<file>">>, history, <<>>, files, NoValue, NoMemento)
    ELSE IF args[1] \notin DOMAIN files
    THEN Handled("", <<"file", "not", "found.">>, history, <<>>, files, NoValue, NoMemento)
    ELSE LET l == load_rows(files[args[1]].rows, 1, clear(history))
         IN  IF l.raised # ""
             THEN Handled(l.raised, <<>>, l.h, <<>>, files, NoValue, NoMemento)
             ELSE Handled("", <<"history", "loaded", "from", args[1]>>, l.h, <<>>, files,
                          NoValue, NoMemento)

CalculationLines ==
    {<<"divide", <<5, 0>>>>, <<"add", <<7, 2>>>>, <<"root", <<-8, 3>>>>,
     <<"add", <<7>>>>, <<"sqrt", <<7, 2>>>>}

FileArgs == {<<>>, <<"out.csv">>}

ReplInit ==
    /\ max_history = None
    /\ max_size = or_default(max_history, DEFAULT_MAX_HISTORY)
    /\ past = <<>>
    /\ future = <<>>
    /\ observers = cli_observers
    /\ notified = <<>>
    /\ outcome = Plain("__init__")
    /\ pushed = <<>>
    /\ linear = FALSE
    /\ files = NoFiles
    /\ request = NoRequest
    /\ printed = <<>>
    /\ threads = NoThreads
    /\ other = NoOther
    /\ log_handlers = <<>>

ReplFrame == UNCHANGED <<max_history, max_size, observers, pushed, linear, threads, other, log_handlers>>

Apply(cmd, args, r) ==
    /\ request' = [op_name |-> cmd, operands |-> args]
    /\ printed' = r.printed
    /\ past' = r.past
    /\ future' = r.future
    /\ notified' = r.calls
    /\ files' = r.files
    /\ outcome' = [op |-> IF cmd \in {"save", "load"} THEN cmd ELSE "line",
                   raised |-> r.raised, result |-> r.result, memento |-> r.memento]
    /\ ReplFrame

HandleCalculation(cmd, args, t) ==
    LET r == handle_calculation(cmd, args, t)
    IN  /\ r.memento # NoMemento => Len(past) < MaxEvals
        /\ Apply(cmd, args, r)

\* The handlers read args[0] only: lines of at most one argument are modelled.
HandleSave(args) ==
    /\ Len(args) <= 1
    /\ Apply("save", args, _cmd_save(args))

HandleLoad(args) ==
    /\ Len(args) <= 1
    /\ Apply("load", args, _cmd_load(args))

HandleUndo(args) ==
    /\ Len(args) <= 1
    /\ Apply("undo", args, _cmd_undo(args))

\* The program is started again: CalculatorCLI() with a fresh Calculator.
NewSession ==
    /\ outcome.op # "__init__"
    /\ past' = <<>>
    /\ future' = <<>>
    /\ notified' = <<>>
    /\ outcome' = Plain("__init__")
    /\ request' = NoRequest
    /\ printed' = <<>>
    /\ UNCHANGED files
    /\ ReplFrame

ReplNext ==
    \/ \E l \in CalculationLines : HandleCalculation(l[1], l[2], "2025-01-01T00:00:00")
    \/ \E args \in FileArgs : HandleSave(args)
    \/ \E args \in FileArgs : HandleLoad(args)
    \/ \E args \in {<<>>} : HandleUndo(args)
    \/ NewSession

ReplSpec == ReplInit /\ [][ReplNext]_vars

\* Sessions whose calculation lines all succeed and give two different
\* records that a CSV file can hold and float() can read back.
LoadLines == {<<"add", <<7, 2>>>>, <<"divide", <<7, 2>>>>}

LoadNext ==
    \/ \E l \in LoadLines : HandleCalculation(l[1], l[2], "2025-01-01T00:00:00")
    \/ \E args \in FileArgs : HandleSave(args)
    \/ \E args \in FileArgs : HandleLoad(args)
    \/ \E args \in {<<>>} : HandleUndo(args)
    \/ NewSession

LoadSpec == ReplInit /\ [][LoadNext]_vars

----------------------------------------------------------------------------
(* The observer registry with room for one registration more than in Spec, *)
(* so that a handler can be registered before and after another one.       *)

RegistryRequests == {<<"ADD", <<7, 2>>>>, <<"Divide", <<7, 0>>>>}

RegisterAgain(o) ==
    /\ Len(observers) <= MaxObservers
    /\ observers' = register_observer(o)
    /\ notified' = <<>>
    /\ outcome' = Plain("register_observer")
    /\ UNCHANGED <<max_history, max_size, past, future, pushed, linear,
                   files, request, printed, threads, other, log_handlers>>

RegistryNext ==
    \/ \E r \in RegistryRequests : Evaluate(r[1], r[2], "2025-01-01T00:00:00")
    \/ \E o \in ObserverIds : RegisterAgain(o)
    \/ \E o \in ObserverIds : UnregisterObserver(o)

RegistrySpec == Init /\ [][RegistryNext]_vars

----------------------------------------------------------------------------
(* Calculator(max_history=None) followed by evaluate calls only, as many   *)
(* as it takes to go past DEFAULT_MAX_HISTORY records.                     *)

NoneInit ==
    /\ max_history = None
    /\ max_size = or_default(max_history, DEFAULT_MAX_HISTORY)
    /\ past = <<>>
    /\ future = <<>>
    /\ observers = <<>>
    /\ notified = <<>>
    /\ outcome = Plain("__init__")
    /\ pushed = <<>>
    /\ linear = TRUE
    /\ files = NoFiles
    /\ request = NoRequest
    /\ printed = <<>>
    /\ threads = NoThreads
    /\ other = NoOther
    /\ log_handlers = <<>>

NoneRequests == {<<"ADD", <<7, 2>>>>, <<"Divide", <<7, 0>>>>}

\* evaluate, until one record more than DEFAULT_MAX_HISTORY was pushed.
EvaluateMany(op_name, operands, t) ==
    LET e == evaluate(op_name, operands, t)
    IN  /\ Len(pushed) <= DEFAULT_MAX_HISTORY
        /\ past' = e.past
        /\ future' = e.future
        /\ notified' = e.calls
        /\ outcome' = Outcome("evaluate", e)
        /\ pushed' = IF e.memento # NoMemento /\ linear
                     THEN Append(pushed, e.memento) ELSE pushed
        /\ files' = e.files
        /\ UNCHANGED <<max_history, max_size, observers, linear, request, printed, threads, other, log_handlers>>

NoneNext == \E r \in NoneRequests : EvaluateMany(r[1], r[2], "2025-01-01T00:00:00")

NoneSpec == NoneInit /\ [][NoneNext]_vars

----------------------------------------------------------------------------
(* Two Calculator instances in one process.  The variables past, future    *)
(* and observers are those of the instance the caller is making calls on;  *)
(* `other` keeps the attributes of the second instance, and other.shared   *)
(* names the attributes that are the very same object in both instances.   *)

\* A Calculator whose observer list is one list object for all instances.
new_calculator_SharedList == [past |-> <<>>, future |-> <<>>, observers |-> <<>>,
                              shared |-> {"observers"}]

\* Calculator.__init__: a new History and a new list for this instance.
new_calculator == [past |-> <<>>, future |-> <<>>, observers |-> <<>>,
                   shared |-> {}]

\* The attributes of the second instance as a caller reads them.
other_past == IF "history" \in other.shared THEN past ELSE other.past

other_future == IF "history" \in other.shared THEN future ELSE other.future

other_observers == IF "observers" \in other.shared THEN observers ELSE other.observers

PairRequests ==
    {<<"ADD", <<7, 2>>>>, <<"Divide", <<7, 2>>>>, <<"Divide", <<7, 0>>>>}

\* Two calculators constructed with max_history = 1.
PairInit ==
    /\ max_history = 1
    /\ max_size = or_default(max_history, DEFAULT_MAX_HISTORY)
    /\ past = <<>>
    /\ future = <<>>
    /\ observers = <<>>
    /\ notified = <<>>
    /\ outcome = Plain("__init__")
    /\ pushed = <<>>
    /\ linear = TRUE
    /\ files = NoFiles
    /\ request = NoRequest
    /\ printed = <<>>
    /\ threads = NoThreads
    /\ other = new_calculator
    /\ log_handlers = <<>>

\* The caller turns to the other instance: its attributes become the ones
\* the next calls work on.
Switch ==
    /\ past' = other_past
    /\ future' = other_future
    /\ observers' = other_observers
    /\ other' = [other EXCEPT !.past = past, !.future = future, !.observers = observers]
    /\ notified' = <<>>
    /\ outcome' = Plain("switch")
    /\ pushed' = <<>>
    /\ linear' = FALSE
    /\ UNCHANGED <<max_history, max_size, files, request, printed, threads, log_handlers>>

PairNext ==
    \/ \E r \in PairRequests : Evaluate(r[1], r[2], "2025-01-01T00:00:00")
    \/ Undo
    \/ Redo
    \/ ClearHistory
    \/ \E o \in ObserverIds : RegisterObserver(o)
    \/ \E o \in ObserverIds : UnregisterObserver(o)
    \/ Switch

PairSpec == PairInit /\ [][PairNext]_vars

----------------------------------------------------------------------------
(* Runs of undo and redo after a run of evaluations                        *)
(* (tests/test_history.py::test_multi_level_undo_redo at any depth): from  *)
(* an empty history, evaluate calls, then undo and redo calls in any       *)
(* order; clear_history starts the next run.  `pushed` keeps the records   *)
(* of the run's evaluations for the whole run.                             *)

LifoRequests == {<<"ADD", <<7, 2>>>>, <<"Divide", <<7, 2>>>>, <<"Divide", <<7, 0>>>>}

LifoEvaluate(op_name, operands, t) ==
    /\ linear
    /\ Evaluate(op_name, operands, t)

LifoUndo ==
    LET e == calc_undo
    IN  /\ past' = e.past
        /\ future' = e.future
        /\ notified' = e.calls
        /\ outcome' = Outcome("undo", e)
        /\ linear' = IF e.raised = "" THEN FALSE ELSE linear
        /\ UNCHANGED <<max_history, max_size, observers, pushed, files, request,
                       printed, threads, other, log_handlers>>

LifoRedo ==
    LET e == calc_redo
    IN  /\ past' = e.past
        /\ future' = e.future
        /\ notified' = e.calls
        /\ outcome' = Outcome("redo", e)
        /\ linear' = IF e.raised = "" THEN FALSE ELSE linear
        /\ UNCHANGED <<max_history, max_size, observers, pushed, files, request,
                       printed, threads, other, log_handlers>>

LifoNext ==
    \/ \E r \in LifoRequests, t \in Timestamps : LifoEvaluate(r[1], r[2], t)
    \/ LifoUndo
    \/ LifoRedo
    \/ ClearHistory

LifoSpec == Init /\ [][LifoNext]_vars

----------------------------------------------------------------------------
(* The history under every order of push, undo, redo and clear, for each   *)
(* capacity: the calculator with no handler registered.                    *)

CapacityNext ==
    \/ \E r \in LifoRequests : Evaluate(r[1], r[2], "2025-01-01T00:00:00")
    \/ Undo
    \/ Redo
    \/ ClearHistory

CapacitySpec == Init /\ [][CapacityNext]_vars

----------------------------------------------------------------------------
(* Handlers that change the registry from inside notify.  "selfremove"     *)
(* calls unregister_observer on itself, "dropspy" calls                    *)
(* unregister_observer on the "spy" handler; "spy" changes nothing.        *)
(* _notify_observers runs `for obs in self._observers` on the list object  *)
(* the handlers change: the list iterator keeps a position, and at each    *)
(* step it ends if the position is past the end of the list as it is then, *)
(* otherwise yields the element at the position and advances.              *)

LiveIds == {"spy", "selfremove", "dropspy"}

\* self._observers after handler o's notify returned.
registry_after(o, obs) ==
    IF o = "selfremove" THEN list_remove(obs, "selfremove").list
    ELSE IF o = "dropspy" THEN list_remove(obs, "spy").list
    ELSE obs

\* Calculator._notify_observers from iterator position i on, over the list
\* as the handlers leave it.
RECURSIVE notify_live(_, _, _)
notify_live(obs, i, memento) ==
    IF i > Len(obs) THEN [calls |-> <<>>, observers |-> obs]
    ELSE LET call == [observer |-> obs[i], memento |-> memento, raised |-> ""]
             rest == notify_live(registry_after(obs[i], obs), i + 1, memento)
         IN  [calls |-> <<call>> \o rest.calls, observers |-> rest.observers]

LiveRequests == {<<"ADD", <<7, 2>>>>, <<"Divide", <<7, 0>>>>}

\* Calculator.evaluate with such handlers registered.
LiveEvaluate(op_name, operands, t) ==
    LET e == evaluate(op_name, operands, t)
        n == notify_live(observers, 1, e.memento)
    IN  /\ e.memento # NoMemento => Len(past) < MaxEvals
        /\ past' = e.past
        /\ future' = e.future
        /\ notified' = IF e.memento # NoMemento THEN n.calls ELSE <<>>
        /\ observers' = IF e.memento # NoMemento THEN n.observers ELSE observers
        /\ outcome' = Outcome("evaluate", e)
        /\ UNCHANGED <<max_history, max_size, pushed, linear, files, request,
                       printed, threads, other, log_handlers>>

LiveRegister(o) ==
    /\ o \in LiveIds
    /\ RegisterObserver(o)

LiveUnregister(o) ==
    /\ o \in LiveIds
    /\ UnregisterObserver(o)

LiveNext ==
    \/ \E r \in LiveRequests, t \in Timestamps : LiveEvaluate(r[1], r[2], t)
    \/ \E o \in LiveIds : LiveRegister(o)
    \/ \E o \in LiveIds : LiveUnregister(o)
    \/ Undo

LiveSpec == Init /\ [][LiveNext]_vars

----------------------------------------------------------------------------
(* LoggingObserver instances in one process.  An instance is named by its  *)
(* log_path.  Every instance holds the same logger object,                 *)
(* logging.getLogger("CalculatorLogger"), and __init__ adds one            *)
(* FileHandler on its log_path to that logger; `log_handlers` is the       *)
(* logger's handler list.  A log file is the sequence of its lines, a line *)
(* is the message without the clock reading in front of it.                *)

LogPaths == {"logs/calculator.log", "logs/second.log"}

\* The message LoggingObserver.notify builds.
log_message(m) ==
    [operation |-> m.operation_name, op1 |-> m.operands[1], op2 |-> m.operands[2],
     result |-> m.result]

\* FileHandler.emit: the file is opened for appending.
append_line(fs, path, line) ==
    [q \in (DOMAIN fs) \cup {path} |->
        IF q # path THEN fs[q]
        ELSE IF path \in DOMAIN fs THEN Append(fs[path], line) ELSE <<line>>]

\* Logger.info: every handler of the logger emits the line, in handler
\* order from position i on.
RECURSIVE logger_info(_, _, _, _)
logger_info(handlers, i, line, fs) ==
    IF i > Len(handlers) THEN fs
    ELSE logger_info(handlers, i + 1, line, append_line(fs, handlers[i], line))

\* LoggingObserver.notify for each call of one _notify_observers run.
RECURSIVE logging_effects(_, _, _, _)
logging_effects(calls, i, handlers, fs) ==
    IF i > Len(calls) THEN fs
    ELSE logging_effects(calls, i + 1, handlers,
                         logger_info(handlers, 1, log_message(calls[i].memento), fs))

\* LoggingObserver.__init__(log_path): the FileHandler opens (creates) the
\* file and joins the handlers of the shared logger.
NewLoggingObserver(path) ==
    /\ Len(log_handlers) < MaxObservers
    /\ log_handlers' = Append(log_handlers, path)
    /\ files' = IF path \in DOMAIN files THEN files ELSE write_file(files, path, <<>>)
    /\ notified' = <<>>
    /\ outcome' = Plain("LoggingObserver")
    /\ UNCHANGED <<max_history, max_size, past, future, observers, pushed, linear,
                   request, printed, threads, other>>

\* register_observer on a LoggingObserver constructed before.
LogRegister(path) ==
    /\ \E i \in 1..Len(log_handlers) : log_handlers[i] = path
    /\ \A i \in 1..Len(observers) : observers[i] # path
    /\ RegisterObserver(path)

LogRequests == {<<"ADD", <<7, 2>>>>, <<"Divide", <<7, 0>>>>}

\* Calculator.evaluate with LoggingObserver handlers registered.
LogEvaluate(op_name, operands, t) ==
    LET e == evaluate(op_name, operands, t)
    IN  /\ Len(pushed) < MaxEvals
        /\ past' = e.past
        /\ future' = e.future
        /\ notified' = e.calls
        /\ outcome' = Outcome("evaluate", e)
        /\ pushed' = IF e.memento # NoMemento THEN Append(pushed, e.memento) ELSE pushed
        /\ files' = logging_effects(e.calls, 1, log_handlers, e.files)
        /\ UNCHANGED <<max_history, max_size, observers, linear, request, printed,
                       threads, other, log_handlers>>

LogNext ==
    \/ \E path \in LogPaths : NewLoggingObserver(path)
    \/ \E path \in LogPaths : LogRegister(path)
    \/ \E r \in LogRequests : LogEvaluate(r[1], r[2], "2025-01-01T00:00:00")

LogSpec == Init /\ [][LogNext]_vars

----------------------------------------------------------------------------
(* History.push and History.undo statement by statement, for two callers   *)
(* on one History.  threads.push / threads.undo are the callers' positions, *)
(* threads.item is undo's local `item`; threads.serialised says whether    *)
(* the embedder lets a call start only when the other is not in progress;  *)
(* threads.stale records that undo popped its item before push cleared     *)
(* the redo stack.                                                         *)

\* push, first statement: self._past.append(item)
push_append(h, item, maxlen) == [h EXCEPT !.past = deque_append(h.past, item, maxlen)]

\* A second statement of push that leaves the redo stack as it is.
push_clear_Skipped(h) == h

\* push, second statement: self._future.clear()
push_clear(h) == [h EXCEPT !.future = <<>>]

\* undo, second statement: item = self._past.pop()
undo_pop(h) == [h EXCEPT !.past = deque_pop(h.past)]

\* undo, third statement: self._future.append(item)
undo_append(h, item, maxlen) == [h EXCEPT !.future = deque_append(h.future, item, maxlen)]

RaceItems ==
    {from_operation(Operation(name, <<7, 2>>), t) :
        name \in {"add", "divide"}, t \in Timestamps}

SeqsUpTo(S, n) == UNION {[1..k -> S] : k \in 0..n}

\* A History with max_size = MaxHistoryArg after some evaluates and undos,
\* and no caller inside it.
RaceInit ==
    /\ max_history = MaxHistoryArg
    /\ max_size = MaxHistoryArg
    /\ past \in SeqsUpTo(RaceItems, MaxHistoryArg)
    /\ future \in SeqsUpTo(RaceItems, 1)
    /\ observers = <<>>
    /\ notified = <<>>
    /\ outcome = Plain("__init__")
    /\ pushed = <<>>
    /\ linear = FALSE
    /\ files = NoFiles
    /\ request = NoRequest
    /\ printed = <<>>
    /\ \E s \in BOOLEAN :
          threads = [push |-> "idle", undo |-> "idle", item |-> NoMemento,
                     serialised |-> s, stale |-> FALSE]
    /\ other = NoOther
    /\ log_handlers = <<>>

InPush == threads.push = "appended"

InUndo == threads.undo \in {"tested", "popped"}

RaceFrame ==
    UNCHANGED <<max_history, max_size, observers, notified, outcome, pushed,
                linear, files, request, printed, other, log_handlers>>

PushAppend(item) ==
    /\ threads.push = "idle"
    /\ threads.serialised => ~InUndo
    /\ past' = push_append(history, item, max_size).past
    /\ threads' = [threads EXCEPT !.push = "appended"]
    /\ UNCHANGED future
    /\ RaceFrame

PushClear ==
    /\ threads.push = "appended"
    /\ future' = push_clear(history).future
    /\ threads' = [threads EXCEPT !.push = "done"]
    /\ UNCHANGED past
    /\ RaceFrame

\* undo, first statement: if not self._past: raise IndexError
UndoTest ==
    /\ threads.undo = "idle"
    /\ threads.serialised => ~InPush
    /\ threads' = [threads EXCEPT !.undo = IF past = <<>> THEN "raised" ELSE "tested"]
    /\ UNCHANGED <<past, future>>
    /\ RaceFrame

UndoPop ==
    /\ threads.undo = "tested"
    /\ past' = undo_pop(history).past
    /\ threads' = [threads EXCEPT !.undo = "popped", !.item = Last(past),
                                  !.stale = (threads.push # "done")]
    /\ UNCHANGED future
    /\ RaceFrame

UndoAppend ==
    /\ threads.undo = "popped"
    /\ future' = undo_append(history, threads.item, max_size).future
    /\ threads' = [threads EXCEPT !.undo = "done"]
    /\ UNCHANGED past
    /\ RaceFrame

RaceNext ==
    \/ \E item \in RaceItems : PushAppend(item)
    \/ PushClear
    \/ UndoTest
    \/ UndoPop
    \/ UndoAppend

RaceSpec == RaceInit /\ [][RaceNext]_vars

----------------------------------------------------------------------------
(* Properties.  `outcome` and `notified` describe the most recent call, so *)
(* a step with outcome'.op = "undo" is a step of Calculator.undo, and so   *)
(* on; unprimed variables are the state before the call.                   *)

EvaluateFailed == outcome.op = "evaluate" /\ outcome.raised # ""

EvaluateSucceeded == outcome.op = "evaluate" /\ outcome.raised = ""

UndoSucceeded == outcome.op = "undo" /\ outcome.raised = ""

\* Number of positions of sequence s that hold x.
Count(s, x) == Cardinality({i \in 1..Len(s) : s[i] = x})

\* The handlers called, in call order.
Called == [i \in 1..Len(notified) |-> notified[i].observer]

\* The last n items of s (all of s when it is shorter).
LastN(s, n) == IF Len(s) <= n THEN s ELSE SubSeq(s, Len(s) - n + 1, Len(s))

RedoFails(h) == redo(h, max_size).raised = "IndexError"

UndoFails(h) == undo(h, max_size).raised = "IndexError"

\* C1: an evaluate call that fails (unknown operation, wrong operand count,
\* zero second operand of divide/root/modulus/intdivide/percent, ...) leaves
\* past and future exactly as they were: history() and size() are unchanged
\* and a redo that was possible before the call is still possible after it.
C1_FailedEvaluateKeepsHistory ==
    [][EvaluateFailed' =>
          /\ past' = past
          /\ future' = future
          /\ calc_history' = calc_history
          /\ size(history') = size(history)
          /\ (~RedoFails(history) => ~RedoFails(history'))]_vars

\* A failed evaluate (a ValueError) on a history with records on both sides.
C1_Witness ==
    /\ EvaluateFailed
    /\ outcome.raised = "ValueError"
    /\ past # <<>>
    /\ future # <<>>

\* C2: a failing evaluate notifies no registered observer: the call makes no
\* notify invocation at all, whatever observers are registered.
C2_FailedEvaluateNotifiesNobody ==
    EvaluateFailed => notified = <<>>

\* A failed evaluate with two handlers registered.
C2_Witness ==
    /\ EvaluateFailed
    /\ Len(observers) = 2

\* C3: a successful evaluate notifies every registration present at the time
\* of the call exactly once, in registration order, each with the record the
\* call created (which is the record it pushed).
C3_SuccessNotifiesAllInOrder ==
    [][EvaluateSucceeded' =>
          /\ Called' = observers
          /\ \A i \in 1..Len(notified') : notified'[i].memento = outcome'.memento
          /\ outcome'.memento # NoMemento
          /\ Last(past') = outcome'.memento]_vars

\* A successful evaluate with two different handlers registered.
C3_Witness ==
    /\ EvaluateSucceeded
    /\ Len(observers) = 2
    /\ observers[1] # observers[2]
    /\ Len(notified) = 2

\* C4: when a handler's notify raises during a successful evaluate, (a) every
\* handler registered after it is still notified with the same record, (b)
\* evaluate does not raise, (c) evaluate returns the operation's result, and
\* (d) the new record is the last entry of history().
C4_RaisingObserverIsIsolated ==
    [][(outcome'.op = "evaluate" /\ \E i \in 1..Len(notified') : notified'[i].raised # "") =>
          /\ Called' = observers
          /\ \A i \in 1..Len(notified') : notified'[i].memento = outcome'.memento
          /\ outcome'.raised = ""
          /\ outcome'.result = outcome'.memento.result
          /\ outcome'.result = func(outcome'.memento.operation_name,
                                    outcome'.memento.operands[1],
                                    outcome'.memento.operands[2]).value
          /\ calc_history' # <<>>
          /\ Last(calc_history') = outcome'.memento]_vars

\* A successful evaluate whose first handler raised and whose second did not.
C4_Witness ==
    /\ EvaluateSucceeded
    /\ Len(notified) = 2
    /\ notified[1].raised = "RuntimeError"
    /\ notified[2].raised = ""

\* C5: a successful evaluate (a push) leaves future empty, so a redo right
\* after it fails with IndexError; and an empty future stays empty, so redo
\* keeps failing, through every call that is not a successful undo.
C5_PushClearsFuture ==
    [][/\ EvaluateSucceeded' => (future' = <<>> /\ RedoFails(history'))
       /\ (future = <<>> /\ ~UndoSucceeded') => (future' = <<>> /\ RedoFails(history'))]_vars

\* A successful evaluate made after some undo, on a history of two records.
C5_Witness ==
    /\ EvaluateSucceeded
    /\ ~linear
    /\ Len(past) >= 2
    /\ future = <<>>

\* C6: from a non-empty past, undo then redo gives back the undone record
\* and restores past, future and size() to what they were before the undo.
\* First conjunct: after every undo step a redo would restore the state
\* before it.  Second: the redo step taken right after an undo is that redo.
C6_UndoThenRedoRestores ==
    [][/\ (outcome'.op = "undo" /\ past # <<>>) =>
             LET r == redo(history', max_size)
             IN  /\ outcome'.raised = ""
                 /\ r.raised = ""
                 /\ r.item = outcome'.memento
                 /\ r.past = past
                 /\ r.future = future
                 /\ Len(r.past) = size(history)
       /\ (UndoSucceeded /\ outcome'.op = "redo") =>
             LET r == redo(history, max_size)
             IN  /\ outcome'.raised = ""
                 /\ outcome'.memento = outcome.memento
                 /\ past' = r.past
                 /\ future' = r.future]_vars

\* A successful redo on a history filled to its capacity, with something
\* still left to redo.
C6_Witness ==
    /\ outcome.op = "redo"
    /\ outcome.raised = ""
    /\ future # <<>>
    /\ Len(past) + Len(future) = max_size

\* C7: with max_size = N >= 1, after N+k pushes onto an empty history past
\* holds exactly the min(N, N+k) most recently pushed records in push order;
\* the push beyond capacity does not raise.
C7_BoundedPastKeepsNewest ==
    /\ max_size >= 1
    /\ Len(past) <= max_size
    /\ linear =>
          /\ past = LastN(pushed, max_size)
          /\ Len(pushed) >= max_size => Len(past) = max_size
          /\ (outcome.op = "evaluate" /\ outcome.memento # NoMemento) =>
                (outcome.raised = "" /\ Last(past) = outcome.memento)

\* Three pushes onto an empty history of capacity 2.
C7_Witness ==
    /\ linear
    /\ max_size = 2
    /\ Len(pushed) > max_size
    /\ pushed[1] # pushed[2]

\* C8: undo raises IndexError exactly when past is empty, redo exactly when
\* future is empty; neither raises anything else, and a failing undo or redo
\* leaves past and future unchanged.
C8_EmptyHistoryErrors ==
    [][/\ outcome'.op = "undo" =>
             /\ outcome'.raised = (IF past = <<>> THEN "IndexError" ELSE "")
             /\ outcome'.raised # "" => (past' = past /\ future' = future)
       /\ outcome'.op = "redo" =>
             /\ outcome'.raised = (IF future = <<>> THEN "IndexError" ELSE "")
             /\ outcome'.raised # "" => (past' = past /\ future' = future)]_vars

\* An undo that failed while there was something to redo.
C8_Witness ==
    /\ outcome.op = "undo"
    /\ outcome.raised = "IndexError"
    /\ past = <<>>
    /\ future # <<>>

\* C9: undo, redo and clear_history never notify, successful or not; only a
\* successful evaluate notifies, once per registration of a handler.  Hence
\* a handler's notifications add up to the successful evaluates made while it
\* was registered (counted once per registration), however many undo, redo
\* and clear_history calls there were.
C9_OnlyEvaluateNotifies ==
    /\ outcome.op \in {"undo", "redo", "clear_history"} => notified = <<>>
    /\ \A o \in ObserverIds :
          Count(Called, o) = IF EvaluateSucceeded THEN Count(observers, o) ELSE 0

\* A successful undo with a handler registered.
C9_Witness ==
    /\ UndoSucceeded
    /\ observers # <<>>
    /\ past # <<>>

\* C10: clear_history never raises and leaves past and future empty: size()
\* is 0 and both undo and redo fail with IndexError, and this stays so
\* through every call that is not a successful evaluate.
C10_ClearEmptiesBoth ==
    [][/\ outcome'.op = "clear_history" =>
             /\ outcome'.raised = ""
             /\ past' = <<>>
             /\ future' = <<>>
             /\ size(history') = 0
             /\ UndoFails(history')
             /\ RedoFails(history')
       /\ (past = <<>> /\ future = <<>> /\ ~EvaluateSucceeded') =>
             (UndoFails(history') /\ RedoFails(history'))]_vars

\* A clear_history call on a calculator with a handler registered.
C10_Witness ==
    /\ outcome.op = "clear_history"
    /\ size(history) = 0
    /\ future = <<>>
    /\ observers # <<>>

\* C11: a successful evaluate(op_name, a, b) returns the result field of the
\* record that is then last in history(); that record holds the operands
\* (a, b) in call order and the lower-case registry keyword as its
\* operation_name, whatever letter case the caller used.
C11_EvaluateRecordsTheCall ==
    [][EvaluateSucceeded' =>
          \A r \in Requests :
              Evaluate(r[1], r[2], outcome'.memento.timestamp) =>
                  /\ calc_history' # <<>>
                  /\ outcome'.result = Last(calc_history').result
                  /\ Last(calc_history').operands = r[2]
                  /\ Last(calc_history').timestamp \in Timestamps
                  /\ Last(calc_history').operation_name \in _registry
                  /\ r[1] = "ADD" => Last(calc_history').operation_name = "add"
                  /\ r[1] = "Divide" => Last(calc_history').operation_name = "divide"]_vars

\* A successful evaluate whose caller wrote the keyword as "Divide".
C11_Witness ==
    /\ EvaluateSucceeded
    /\ outcome.memento.operation_name = "divide"
    /\ outcome.memento.operands = <<7, 2>>
    /\ Last(past) = outcome.memento

----------------------------------------------------------------------------
(* Properties of the resolver (specification OpSpec).                      *)

Resolved == outcome.op = "resolve"

\* The request names a registered operation and carries two operands.
WellFormed == lower(request.op_name) \in _registry /\ Len(request.operands) = num_args

\* q is the floor of a / b: the integer with q <= a / b < q + 1.
IsFloor(q, a, b) ==
    IF b > 0 THEN q * b <= a /\ a < (q + 1) * b
    ELSE q * b >= a /\ a > (q + 1) * b

\* r is a mod b: a minus b times the floor of a / b.
IsMod(r, a, b) == \E q \in (-Abs(a) - 1)..(Abs(a) + 1) : IsFloor(q, a, b) /\ r = a - b * q

Integer(v) == v.den = 1 /\ v.rt = 1

\* The failure kinds of the resolver: every one is a ValueError, told from
\* the others by where it is raised and by its message.
InvalidMathMessages ==
    {"division by zero", "zero root", "modulo by zero", "int divide by zero",
     "percent div by zero"}

Kind(o) ==
    CASE o.raised = "" -> "none"
      [] o.raised = "ValueError" /\ o.msg = "Unknown operation" -> "UnknownOperation"
      [] o.raised = "ValueError" /\ o.msg = "expects 2 arguments" -> "ArityError"
      [] o.raised = "ValueError" /\ o.msg \in InvalidMathMessages -> "InvalidMath"
      [] OTHER -> o.raised

\* C12: resolution matches the reference table on integers a, b of the
\* bounded range: add a+b, subtract a-b, multiply a*b, absdiff |a-b|, and
\* for b # 0 intdivide floor(a/b) and modulus a mod b; the outcome of a call
\* is the one a second call with the same inputs gives, and a call changes
\* nothing but its own outcome.
C12_ResolverMatchesTable ==
    [][(Resolved' /\ WellFormed') =>
          LET name == lower(request'.op_name)
              a == request'.operands[1]
              b == request'.operands[2]
              v == outcome'.result
          IN  /\ name = "add" => (outcome'.raised = "" /\ Integer(v) /\ v.num = a + b)
              /\ name = "subtract" => (outcome'.raised = "" /\ Integer(v) /\ v.num = a - b)
              /\ name = "multiply" => (outcome'.raised = "" /\ Integer(v) /\ v.num = a * b)
              /\ name = "absdiff" =>
                    /\ outcome'.raised = "" /\ Integer(v)
                    /\ v.num >= 0
                    /\ v.num \in {a - b, b - a}
              /\ (name = "intdivide" /\ b # 0) =>
                    (outcome'.raised = "" /\ Integer(v) /\ IsFloor(v.num, a, b))
              /\ (name = "modulus" /\ b # 0) =>
                    (outcome'.raised = "" /\ Integer(v) /\ IsMod(v.num, a, b))
              /\ resolve(request'.op_name, request'.operands).value = v
              /\ resolve(request'.op_name, request'.operands).raised = outcome'.raised
              /\ UNCHANGED <<max_history, max_size, past, future, observers, files>>]_vars

\* intdivide of a negative by a positive number that does not divide it.
C12_Witness ==
    /\ Resolved
    /\ request.op_name = "intdivide"
    /\ request.operands = <<-3, 2>>
    /\ outcome.result = Num(-2)

C14_MalformedRequestsRejected ==
    Resolved =>
        /\ lower(request.op_name) \notin _registry => Kind(outcome) = "UnknownOperation"
        /\ (lower(request.op_name) \in _registry /\ Len(request.operands) # num_args)
              => Kind(outcome) = "ArityError"
        /\ Kind(outcome) = "UnknownOperation" => lower(request.op_name) \notin _registry
        /\ Kind(outcome) = "ArityError" => Len(request.operands) \in {1, 3}
        /\ WellFormed => Kind(outcome) \notin {"UnknownOperation", "ArityError"}

\* percent called with three operands.
C14_Witness ==
    /\ Resolved
    /\ request.op_name = "percent"
    /\ Len(request.operands) = 3
    /\ Kind(outcome) = "ArityError"

----------------------------------------------------------------------------
(* Properties of the statement-level History (specification RaceSpec).     *)

\* The push has returned and the redo stack holds an item that undo had
\* popped before the push cleared the redo stack.
TornFuture ==
    /\ threads.push = "done"
    /\ threads.undo = "done"
    /\ threads.stale
    /\ future # <<>>

\* C15: when each call runs to completion before the next one starts, no
\* state is reachable in which the push has completed and future still
\* holds an item undone before it; when the statements of a push and an
\* undo interleave, such a state is reachable (the witness).
C15_SerialisedPushClearsFuture ==
    /\ threads.serialised => ~TornFuture
    /\ (threads.serialised /\ threads.push = "done" /\ threads.undo # "done")
          => future = <<>>

\* An unserialised run: undo popped, push appended and cleared, undo then
\* put its item on the redo stack.
C15_Witness ==
    /\ ~threads.serialised
    /\ TornFuture
    /\ threads.item \in {future[i] : i \in 1..Len(future)}
    /\ past # <<>>

----------------------------------------------------------------------------
(* Properties of Calculator(max_history=None) (specification NoneSpec).    *)

\* C16: a calculator constructed with max_history=None has unlimited
\* history: after n successful evaluate calls and no undo or clear, size()
\* is n and history() holds all n records.
C16_NoneIsUnlimited ==
    (max_history = None /\ linear) =>
        /\ size(history) = Len(pushed)
        /\ calc_history = pushed

----------------------------------------------------------------------------
(* Properties of the calculator with AutoSaveObserver (AutoSaveSpec).      *)

AutoSaveRegistered == Count(observers, "autosave") > 0

\* C17: when a handler is notified of a record, the record is already the
\* last element of history(): the CSV that AutoSaveObserver writes from
\* history() inside notify ends with the new record, and after each
\* successful evaluate the file holds exactly the rows of the whole current
\* history(), oldest first.
C17_AutoSaveHoldsCurrentHistory ==
    [][(EvaluateSucceeded' /\ AutoSaveRegistered) =>
          /\ calc_history' # <<>>
          /\ Last(calc_history') = outcome'.memento
          /\ AutoSavePath \in DOMAIN files'
          /\ files'[AutoSavePath].rows = csv_rows(calc_history')
          /\ Last(files'[AutoSavePath].rows) = csv_row(outcome'.memento)]_vars

\* A successful evaluate on a non-empty history with the raising handler
\* registered before the AutoSaveObserver.
C17_Witness ==
    /\ EvaluateSucceeded
    /\ observers = <<"bad", "autosave">>
    /\ Len(past) >= 2
    /\ AutoSavePath \in DOMAIN files
    /\ Len(files[AutoSavePath].rows) = Len(past)

----------------------------------------------------------------------------
(* Properties of the REPL (specification ReplSpec).                        *)

\* phrase occurs in out as consecutive words.
Contains(out, phrase) ==
    \E i \in 0..(Len(out) - Len(phrase)) : SubSeq(out, i + 1, i + Len(phrase)) = phrase

\* The step is a load, as first line of a new session, of a file that a
\* save command wrote from a non-empty history.
LoadsSavedFile ==
    /\ outcome.op = "__init__"
    /\ outcome'.op = "load"
    /\ request'.operands # <<>>
    /\ request'.operands[1] \in DOMAIN files
    /\ files[request'.operands[1]].source # <<>>

\* C18: saving a non-empty history with the save command and loading that
\* file with the load command in a new session yields a history() of the
\* same length whose records have the same operation, operands, result and
\* timestamp, in the same order.
C18_SaveLoadRoundTrips ==
    [][LoadsSavedFile =>
          LET saved == files[request'.operands[1]].source
          IN  /\ outcome'.raised = ""
              /\ Len(calc_history') = Len(saved)
              /\ calc_history' = saved]_vars

\* C19: handling the line 'divide 5 0' prints an error message containing
\* 'dividing by zero is not allowed' (letter case ignored) and raises
\* nothing out of the line handler.
C19_FriendlyDivideByZero ==
    (request.op_name = "divide" /\ request.operands = <<5, 0>>) =>
        /\ Contains(printed, <<"dividing", "by", "zero", "is", "not", "allowed">>)
        /\ outcome.raised = ""

----------------------------------------------------------------------------
(* Properties of the observer registry (specification RegistrySpec).       *)

\* l without its element at position i.
Without(l, i) == [k \in 1..(Len(l) - 1) |-> IF k < i THEN l[k] ELSE l[k + 1]]

\* C20: a registration is added even when the handler is registered
\* already; unregister removes the first matching registration only and
\* leaves the others in their order (nothing, and no error, when there is
\* none); a handler registered k times is notified k times per successful
\* evaluate, hence k-1 times after one unregister.
C20_DuplicatesKeptFirstRemoved ==
    [][/\ \A o \in ObserverIds :
             /\ RegisterAgain(o) =>
                   /\ Count(observers', o) = Count(observers, o) + 1
                   /\ SubSeq(observers', 1, Len(observers)) = observers
             /\ UnregisterObserver(o) =>
                   /\ outcome'.raised = ""
                   /\ Count(observers, o) = 0 => observers' = observers
                   /\ Count(observers, o) > 0 =>
                         /\ Count(observers', o) = Count(observers, o) - 1
                         /\ \E i \in 1..Len(observers) :
                               /\ observers[i] = o
                               /\ \A j \in 1..(i - 1) : observers[j] # o
                               /\ observers' = Without(observers, i)
       /\ EvaluateSucceeded' =>
             /\ Called' = observers
             /\ \A o \in ObserverIds : Count(Called', o) = Count(observers, o)]_vars

\* An unregister that took one of three registrations, two of them of the
\* same handler, and left the raising handler first.
C20_Witness ==
    /\ outcome.op = "unregister_observer"
    /\ observers = <<"bad", "spy">>

\* C21: unregistering a handler that is not registered raises nothing and
\* leaves the observer list (members and order) and the history as they
\* were; so for a handler registered once, unregistering it twice leaves
\* the same list as unregistering it once.
C21_UnregisterAbsentIsNoOp ==
    [][\A o \in ObserverIds :
          /\ (UnregisterObserver(o) /\ Count(observers, o) = 0) =>
                /\ outcome'.raised = ""
                /\ observers' = observers
                /\ past' = past
                /\ future' = future
          /\ (UnregisterObserver(o) /\ Count(observers, o) = 1) =>
                /\ Count(observers', o) = 0
                /\ list_remove(observers', o).list = observers']_vars

\* An unregister that left a full observer list on a non-empty history:
\* the list cannot have been longer, so the handler was not registered.
C21_Witness ==
    /\ outcome.op = "unregister_observer"
    /\ Len(observers) = MaxObservers + 1
    /\ past # <<>>

----------------------------------------------------------------------------
(* Properties of two Calculator instances (specification PairSpec).        *)

CalculatorCalls ==
    {"evaluate", "undo", "redo", "clear_history", "register_observer",
     "unregister_observer"}

\* C22: a call of evaluate, undo, redo, clear_history, register_observer or
\* unregister_observer on one instance leaves the other instance's past,
\* future and observer list as they were, and the handlers it notifies are
\* registrations of the instance called, none of them the other's.
C22_InstancesShareNothing ==
    [][outcome'.op \in CalculatorCalls =>
          /\ other_past' = other_past
          /\ other_future' = other_future
          /\ other_observers' = other_observers
          /\ notified' # <<>> =>
                /\ Called' = observers
                /\ "observers" \notin other.shared]_vars

\* A successful evaluate that notified a handler of the instance called
\* while the other instance holds a record and another handler.
C22_Witness ==
    /\ EvaluateSucceeded
    /\ Called = <<"spy">>
    /\ other.past # <<>>
    /\ other.observers = <<"bad">>
    /\ Last(past) # Last(other.past)

----------------------------------------------------------------------------
(* Properties of undo / redo runs (specification LifoSpec).                *)

\* reversed(s)
reversed(s) == [i \in 1..Len(s) |-> s[Len(s) + 1 - i]]

\* C23: after n successful evaluations on an empty history, n within the
\* capacity, the undo made when j records are already undone returns the
\* (n - j)-th evaluation and the redo made then returns the (n - j + 1)-th:
\* k undos in a row return the records newest first, k redos in a row
\* return them oldest first; past followed by future read backwards is
\* always the n evaluations in order, so when the redos have emptied future
\* history() is the n evaluations again.
C23_UndoRedoIsLifo ==
    [][(Len(pushed) <= max_size /\ outcome'.op \in {"undo", "redo"}
            /\ outcome'.raised = "") =>
          /\ past \o reversed(future) = pushed
          /\ past' \o reversed(future') = pushed
          /\ outcome'.op = "undo" =>
                /\ outcome'.memento = pushed[Len(pushed) - Len(future)]
                /\ Len(future') = Len(future) + 1
          /\ outcome'.op = "redo" =>
                /\ outcome'.memento = pushed[Len(pushed) - Len(future) + 1]
                /\ Len(future') = Len(future) - 1
          /\ future' = <<>> => calc_history' = pushed]_vars

\* Three different records were evaluated, all three were undone, and the
\* third redo in a row has just restored the history.
C23_Witness ==
    /\ outcome.op = "redo"
    /\ outcome.raised = ""
    /\ Len(pushed) = 3
    /\ pushed[1] # pushed[2]
    /\ pushed[2] # pushed[3]
    /\ past = pushed
    /\ future = <<>>
    /\ outcome.memento = pushed[3]

----------------------------------------------------------------------------
(* Properties of the capacity (specification CapacitySpec).                *)

\* The records x of sequence s, each as often as it occurs.
Occurrences(s) == [x \in {s[i] : i \in 1..Len(s)} |-> Count(s, x)]

\* C24: with max_size = N, past and future together never hold more than N
\* records; a successful undo or redo evicts nothing: the records of past
\* and future together, each as often as it occurs, are the same before and
\* after it.
C24_UndoRedoNeverEvict ==
    [][/\ Len(past') + Len(future') <= max_size
       /\ (outcome'.op \in {"undo", "redo"} /\ outcome'.raised = "") =>
             /\ Len(past') + Len(future') = Len(past) + Len(future)
             /\ Occurrences(past' \o future') = Occurrences(past \o future)]_vars

\* A redo on a history filled to its capacity of two, with one record still
\* in future.
C24_Witness ==
    /\ outcome.op = "redo"
    /\ outcome.raised = ""
    /\ max_size = 2
    /\ Len(past) = 1
    /\ Len(future) = 1

----------------------------------------------------------------------------
(* Properties of handlers that change the registry (specification          *)
(* LiveSpec).                                                              *)

\* C25: when a handler unregisters itself or another handler inside its
\* notify, a successful evaluate still calls every handler that was
\* registered when it began exactly once, in registration order.
C25_NotifySurvivesRegistryChange ==
    [][(outcome'.op = "evaluate" /\ outcome'.raised = "") =>
          Called' = observers]_vars

----------------------------------------------------------------------------
(* Properties of the log files (specification LogSpec).                    *)

\* C26: a successful evaluation on a calculator with one registered
\* LoggingObserver appends exactly one line to that observer's log file and
\* writes to the file of no other LoggingObserver, however many
\* LoggingObserver instances were constructed in the process.
C26_OneLineInOwnLogOnly ==
    [][(outcome'.op = "evaluate" /\ outcome'.raised = "" /\ Len(observers) = 1) =>
          \A path \in DOMAIN files :
              files'[path] = IF path = observers[1]
                             THEN Append(files[path], log_message(outcome'.memento))
                             ELSE files[path]]_vars

----------------------------------------------------------------------------
(* Properties of the load and save commands (specifications LoadSpec and   *)
(* ReplSpec).                                                              *)

\* The last line was a load that ran to its end: it printed "History loaded
\* from <file>" and nothing escaped the handler.
LoadCompleted ==
    /\ outcome.op = "load"
    /\ outcome.raised = ""
    /\ Contains(printed, <<"history", "loaded", "from">>)

C28_LoadIsAllOrNothing ==
    [][(outcome'.op = "load" /\ ~LoadCompleted') =>
          /\ past' = past
          /\ future' = future]_vars

\* C29: a save line returns normally in every state of the history, the
\* empty one included (nothing escapes _handle_line, so the loop of run
\* goes on), and leaves past and future unchanged.
C29_SaveAlwaysReturns ==
    [][outcome'.op = "save" =>
          /\ outcome'.raised = ""
          /\ past' = past
          /\ future' = future]_vars

====
